---- MODULE Spec2Model ----
(***************************************************************************)
(* Model of slocum's passage simulator and route optimizer                 *)
(* (src/python/slocum.py).                                                 *)
(*                                                                         *)
(* Units.  Python's floats are modelled in fixed point:                    *)
(*   - a speed is in thousandths of a knot, a distance and a location in   *)
(*     thousandths of a nautical mile (Milli == 1000 is 1.0),              *)
(*   - an angle is in whole degrees (Pi == 180),                           *)
(*   - a datetime is a number of seconds, a timedelta a difference of two. *)
(* The navigation library (lib/navigation.py) and lib/objects.py are not   *)
(* part of the sources; the rhumbline functions are modelled on a line of  *)
(* constant latitude, where a location is its coordinate along the line.   *)
(***************************************************************************)
EXTENDS Integers, Sequences, FiniteSets, TLC

\* ------------------------------------------------------------------------
\* Bounds of the model
\* ------------------------------------------------------------------------
MaxAxisLen == 3        \* most timestamps in one weather field set
MaxWaypoints == 3      \* longest waypoint list
MaxResol == 3          \* largest resol of optimal_passage
MaxGust == 5           \* knots above MAX_WIND_SPEED up to which boat_speed is called
MaxQueries == 3        \* most queries in one email
MaxListed == 2         \* most hours listed before a range of an hours string

\* ------------------------------------------------------------------------
\* Program constants
\* ------------------------------------------------------------------------
Milli == 1000
Pi == 180
MAX_BOAT_SPEED == 6
MAX_POINTING == 20
MIN_WIND_SPEED == 3
REQ_WIND_SPEED == 15
MAX_WIND_SPEED == 35
SECONDS_IN_HOUR == 3600

None == "None"

Abs(x) == IF x < 0 THEN 0 - x ELSE x
Max2(a, b) == IF a > b THEN a ELSE b

\* floor of the square root of n, by bisection on lo..hi
RECURSIVE ISqrtIn(_, _, _)
ISqrtIn(n, lo, hi) ==
    IF lo >= hi THEN lo
    ELSE LET mid == (lo + hi + 1) \div 2
         IN  IF mid * mid <= n THEN ISqrtIn(n, mid, hi) ELSE ISqrtIn(n, lo, mid - 1)

ISqrt(n) == ISqrtIn(n, 0, IF n < 32768 THEN n ELSE 32768)

\* ------------------------------------------------------------------------
\* Floating point values of the optimizer: a finite value is an exact
\* fraction n/d with d > 0; a division by zero gives nan or an infinity, as
\* numpy's float64 does
\* ------------------------------------------------------------------------
RECURSIVE GCD(_, _)
GCD(a, b) == IF b = 0 THEN a ELSE GCD(b, a % b)

Fin(n, d) ==
    LET g == GCD(Abs(n), Abs(d))
        sg == IF d < 0 THEN 0 - 1 ELSE 1
    IN  [k |-> "fin", n |-> sg * (n \div g), d |-> sg * (d \div g)]
NaN == [k |-> "nan", n |-> 0, d |-> 1]
Inf(sign) == [k |-> "inf", n |-> sign, d |-> 1]

FNeg(a) == [a EXCEPT !.n = 0 - a.n]
FAdd(a, b) ==
    IF a.k = "nan" \/ b.k = "nan" THEN NaN
    ELSE IF a.k = "inf" THEN (IF b.k = "inf" /\ b.n # a.n THEN NaN ELSE a)
    ELSE IF b.k = "inf" THEN b
    ELSE Fin(a.n * b.d + b.n * a.d, a.d * b.d)
FSub(a, b) == FAdd(a, FNeg(b))
FDiv(a, b) ==
    IF a.k = "nan" \/ b.k = "nan" THEN NaN
    ELSE IF a.k = "inf" THEN (IF b.k = "inf" THEN NaN
                              ELSE Inf(IF b.n < 0 THEN 0 - a.n ELSE a.n))
    ELSE IF b.k = "inf" THEN Fin(0, 1)
    ELSE IF b.n = 0 THEN (IF a.n = 0 THEN NaN
                          ELSE Inf(IF a.n > 0 THEN 1 ELSE 0 - 1))
    ELSE Fin(a.n * b.d, a.d * b.n)
FLess(a, b) ==
    /\ a.k # "nan"
    /\ b.k # "nan"
    /\ IF a.k = "inf" THEN a.n < 0 /\ ~(b.k = "inf" /\ b.n < 0)
       ELSE IF b.k = "inf" THEN b.n > 0
       ELSE a.n * b.d < b.n * a.d

RECURSIVE FSum(_)
FSum(xs) == IF xs = << >> THEN Fin(0, 1) ELSE FAdd(Head(xs), FSum(Tail(xs)))

\* np.mean of a list of floats
np_mean(xs) == FDiv(FSum(xs), Fin(Len(xs), 1))

\* np.max of a non-empty list of numbers
np_min(xs) == CHOOSE m \in {xs[i] : i \in 1..Len(xs)} : \A i \in 1..Len(xs) : m <= xs[i]

\* np.max of a list of numbers
np_max(xs) == CHOOSE m \in {xs[i] : i \in 1..Len(xs)} : \A i \in 1..Len(xs) : xs[i] <= m

\* an argmin that returns the last of several minima
RECURSIVE ArgMinLastFrom(_, _, _)
ArgMinLastFrom(xs, i, best) ==
    IF i > Len(xs) THEN best
    ELSE IF xs[best].k # "nan" /\ (xs[i].k = "nan" \/ ~FLess(xs[best], xs[i]))
    THEN ArgMinLastFrom(xs, i + 1, i)
    ELSE ArgMinLastFrom(xs, i + 1, best)
np_argmin_last(xs) == ArgMinLastFrom(xs, 2, 1)

\* np.argmin of a non-empty list: the first nan if there is one, else the
\* first occurrence of the minimum
RECURSIVE ArgMinFrom(_, _, _)
ArgMinFrom(xs, i, best) ==
    IF i > Len(xs) THEN best
    ELSE IF xs[best].k # "nan" /\ (xs[i].k = "nan" \/ FLess(xs[i], xs[best]))
    THEN ArgMinFrom(xs, i + 1, i)
    ELSE ArgMinFrom(xs, i + 1, best)
np_argmin(xs) == ArgMinFrom(xs, 2, 1)

\* ------------------------------------------------------------------------
\* Performance model
\* ------------------------------------------------------------------------
\* an angular difference left as it is
FoldAngleNone(a) == a

\* the fold of an angular difference above pi, as written twice in the source
FoldAngle(a) == IF a > Pi THEN 2 * Pi - a ELSE a

directional_max_speed(deg_off_wind) ==
    IF deg_off_wind > MAX_POINTING
    THEN MAX_BOAT_SPEED * Milli
    ELSE ((Milli \div 2) * MAX_BOAT_SPEED)
         + ((Milli \div 2) * MAX_BOAT_SPEED * deg_off_wind) \div MAX_POINTING

\* a ramp that divides by REQ_WIND_SPEED
RampFactorShort(wspeed) ==
    ISqrt(((wspeed - MIN_WIND_SPEED) * Milli * Milli) \div REQ_WIND_SPEED)

\* np.sqrt((wind.speed - MIN) / (REQ - MIN)) in thousandths
RampFactor(wspeed) ==
    ISqrt(((wspeed - MIN_WIND_SPEED) * Milli * Milli)
          \div (REQ_WIND_SPEED - MIN_WIND_SPEED))

\* a polar without the safety cutoff
boat_speed_no_cutoff(wind, bearing) ==
    LET deg_off_wind == FoldAngle(Abs(wind.dir - bearing))
    IN  IF wind.speed > MIN_WIND_SPEED /\ wind.speed <= REQ_WIND_SPEED
        THEN (directional_max_speed(deg_off_wind) * RampFactor(wind.speed)) \div Milli
        ELSE IF wind.speed > MIN_WIND_SPEED
        THEN directional_max_speed(deg_off_wind)
        ELSE 0

boat_speed(wind, bearing) ==
    LET deg_off_wind == FoldAngle(Abs(wind.dir - bearing))
    IN  IF wind.speed > MIN_WIND_SPEED /\ wind.speed <= REQ_WIND_SPEED
        THEN (directional_max_speed(deg_off_wind) * RampFactor(wind.speed)) \div Milli
        ELSE IF wind.speed > MIN_WIND_SPEED /\ wind.speed <= MAX_WIND_SPEED
        THEN directional_max_speed(deg_off_wind)
        ELSE 0

\* hours(timedelta): days * 24 + seconds / 3600 with Python 2 integer division
hours(timedelta) == timedelta \div SECONDS_IN_HOUR

\* ------------------------------------------------------------------------
\* Navigation on a line of constant latitude
\* ------------------------------------------------------------------------
rhumbline_bearing(a, b) == IF b >= a THEN 90 ELSE 270
rhumbline_distance(a, b) == Abs(b - a)
rhumbline_path(a, bearing, distance) ==
    IF bearing = 90 THEN a + distance ELSE a - distance

\* ------------------------------------------------------------------------
\* Inputs
\* ------------------------------------------------------------------------
Locs == {0, 3 * Milli, 6 * Milli}
\* calm, ramp, plateau and above the safety cutoff
Winds == { [speed |-> 0,  dir |-> 0],
           [speed |-> 6,  dir |-> 270],
           [speed |-> 15, dir |-> 270],
           [speed |-> 40, dir |-> 90] }
\* timestamps at irregular distances, some a fraction of an hour apart
Ticks == {0, 3600, 5400, 7200}
Axes == {A \in SUBSET Ticks : Cardinality(A) >= 1 /\ Cardinality(A) <= MaxAxisLen}
\* a weather field set: timestamp -> wind of the field at that time
FieldSets == UNION {[A -> Winds] : A \in Axes}
WaypointLists == UNION {[1..n -> Locs] : n \in 2..MaxWaypoints}

\* smaller sets of arguments for the check of termination
TermLocs == {0, 3 * Milli}
TermWinds == { [speed |-> 0,  dir |-> 0], [speed |-> 15, dir |-> 270] }
TermTicks == {0, 3600, 7200}
TermAxes ==
    {A \in SUBSET TermTicks : Cardinality(A) >= 1 /\ Cardinality(A) <= MaxAxisLen}
TermFieldSets == UNION {[A -> TermWinds] : A \in TermAxes}
TermWaypointLists == UNION {[1..n -> TermLocs] : n \in 2..MaxWaypoints}

\* sorted(wx_fields.keys())
RECURSIVE SortedSeq(_)
SortedSeq(S) ==
    IF S = {} THEN << >>
    ELSE LET m == CHOOSE x \in S : \A y \in S : x <= y
         IN  <<m>> \o SortedSeq(S \ {m})

VARIABLES
    waypoints,   \* the caller's waypoint list
    wx_fields,   \* the caller's weather field set
    pc,          \* "start", "loop" or "done"
    outcome,     \* how the generator ended
    logged,      \* logging.error("Ran out of data!") was called
    here,        \* current location
    dest,        \* index in waypoints of the current destination
    now,         \* time cursor
    fcst_time,   \* timestamp at which the field is sampled
    soon,        \* next sample time
    dt,          \* soon - now
    time_iter,   \* number of timestamps taken from the iterator
    legs,        \* the legs yielded so far
    steps,       \* number of executions of the loop body
    opt_pc,      \* optimal_passage: "start", "evaluated" or "done"
    start,       \* optimal_passage's start
    end,         \* optimal_passage's end
    resol,       \* optimal_passage's resol
    routes,      \* the list of (x, route(x))
    result,      \* the waypoint optimal_passage returns
    opt_outcome, \* how optimal_passage ended
    sim_log,     \* the calls of simulate_passage made by optimal_passage
    summary,     \* what summarize_passage returned
    sum_outcome, \* how summarize_passage ended
    polar_in,    \* the arguments of the call of boat_speed, if there is one
    polar_out,   \* what that call returned, once it has
    ens_waypoints, \* the waypoint list a caller passes to successive runs
    ens_dates,   \* the start_date of each of those runs
    ens_fields,  \* the weather field set of each of those runs
    passages,    \* the leg sequences of the runs that are over
    rows,        \* what summarize_passages returned
    ens_outcome, \* how summarize_passages ended
    wb_bodies,   \* windbreaker: number of bodies of the email
    wb_sailmail, \* the reply address is a sailmail address
    wb_queries,  \* the queries of the email, in order
    wb_next,     \* index of the next query of the for loop
    wb_sent,     \* the emails sent so far, in order
    wb_pc,       \* "idle", "start", "loop" or "done"
    wb_outcome,  \* how windbreaker ended
    hours_in,    \* the argument of the call of parse_hours, if there is one
    hours_out    \* what that call returned or raised, once it has

simvars == <<waypoints, wx_fields, pc, outcome, logged, here, dest, now,
             fcst_time, soon, dt, time_iter, legs, steps>>
optvars == <<opt_pc, start, end, resol, routes, result, opt_outcome, sim_log>>
sumvars == <<summary, sum_outcome>>
polarvars == <<polar_in, polar_out>>
ensvars == <<ens_waypoints, ens_dates, ens_fields, passages, rows, ens_outcome>>
wbvars == <<wb_bodies, wb_sailmail, wb_queries, wb_next, wb_sent, wb_pc, wb_outcome>>
hoursvars == <<hours_in, hours_out>>
auxvars == <<ensvars, wbvars, hoursvars>>
vars == <<simvars, optvars, sumvars, polarvars, auxvars>>

times == SortedSeq(DOMAIN wx_fields)

\* a loop that never leaves its destination
NextDestinationStuck(wps, h, i) == i

\* for destination in waypoints: while not here == destination
RECURSIVE NextDestinationIn(_, _, _)
NextDestinationIn(wps, h, i) ==
    IF i > Len(wps) THEN i
    ELSE IF h = wps[i] THEN NextDestinationIn(wps, h, i + 1)
    ELSE i

NextDestination(h, i) == NextDestinationIn(waypoints, h, i)

\* before the call of simulate_passage
InitSim ==
    /\ waypoints = << >>
    /\ wx_fields = << >>
    /\ pc = "start"
    /\ outcome = "running"
    /\ logged = FALSE
    /\ here = 0
    /\ dest = 0
    /\ now = 0
    /\ fcst_time = 0
    /\ soon = 0
    /\ dt = 0
    /\ time_iter = 0
    /\ legs = << >>
    /\ steps = 0

\* before the call of optimal_passage
InitOpt ==
    /\ opt_pc = "start"
    /\ start = None
    /\ end = None
    /\ resol = 0
    /\ routes = << >>
    /\ result = None
    /\ opt_outcome = "running"
    /\ sim_log = << >>

\* before the call of summarize_passage
InitSum ==
    /\ summary = None
    /\ sum_outcome = "running"

\* no call of boat_speed
InitPolar ==
    /\ polar_in = << >>
    /\ polar_out = << >>

\* no successive runs on a caller's arguments
InitEns ==
    /\ ens_waypoints = << >>
    /\ ens_dates = << >>
    /\ ens_fields = << >>
    /\ passages = << >>
    /\ rows = << >>
    /\ ens_outcome = "idle"

\* no email
InitWb ==
    /\ wb_bodies = 0
    /\ wb_sailmail = FALSE
    /\ wb_queries = << >>
    /\ wb_next = 0
    /\ wb_sent = << >>
    /\ wb_pc = "idle"
    /\ wb_outcome = "running"

\* no call of parse_hours
InitHours ==
    /\ hours_in = << >>
    /\ hours_out = << >>

Init ==
    /\ InitSim
    /\ InitOpt
    /\ InitSum
    /\ InitPolar
    /\ InitEns
    /\ InitWb
    /\ InitHours

\* the generator runs to the end of its body when the for loop has no
\* further destination
Finish(wps, d) == IF d > Len(wps) THEN "done" ELSE "loop"
FinishOutcome(wps, d) == IF d > Len(wps) THEN "finished" ELSE "running"

\* values of the start_date argument: the first and the last of Ticks
StartDates == {0, 7200}

\* a cursor that starts at the latest timestamp not after start_date
FirstTimeFromStartDate(ts, start_date) ==
    LET before == {i \in 1..Len(ts) : ts[i] <= start_date}
    IN  IF before = {} THEN ts[1]
        ELSE ts[CHOOSE i \in before : \A j \in before : j <= i]

\* lines 109, 113-114: now is the first timestamp of the sorted axis, the
\* argument start_date is not read
FirstTime(ts, start_date) == ts[1]

\* lines 104-117 when the axis has a second timestamp; the caller's
\* arguments are drawn from the given sets
BeginAt(WL, SD, FS) ==
    /\ pc = "start"
    /\ \E wps \in WL, start_date \in SD, fields \in FS :
         LET ts == SortedSeq(DOMAIN fields)
         IN  /\ Len(ts) >= 2
             /\ waypoints' = wps
             /\ wx_fields' = fields
             /\ here' = wps[1]
             /\ now' = FirstTime(ts, start_date)
             /\ fcst_time' = now'
             /\ soon' = ts[2]
             /\ dt' = ts[2] - ts[1]
             /\ time_iter' = 2
             /\ dest' = NextDestinationIn(wps, wps[1], 2)
             /\ pc' = Finish(wps, dest')
             /\ outcome' = FinishOutcome(wps, dest')
    /\ UNCHANGED <<logged, legs, steps, optvars, sumvars, polarvars, auxvars>>

BeginWith(WL, FS) == BeginAt(WL, StartDates, FS)
Begin == BeginWith(WaypointLists, FieldSets)

\* lines 104-116 when time_iter.next() raises StopIteration at line 116,
\* outside the try block: the generator ends as if it had returned
BeginStopIterationAt(WL, SD, FS) ==
    /\ pc = "start"
    /\ \E wps \in WL, start_date \in SD, fields \in FS :
         LET ts == SortedSeq(DOMAIN fields)
         IN  /\ Len(ts) < 2
             /\ waypoints' = wps
             /\ wx_fields' = fields
             /\ here' = wps[1]
             /\ now' = FirstTime(ts, start_date)
             /\ fcst_time' = now'
             /\ time_iter' = 1
    /\ pc' = "done"
    /\ outcome' = "stopiteration"
    /\ UNCHANGED <<logged, dest, soon, dt, legs, steps, optvars, sumvars, polarvars, auxvars>>

BeginStopIterationWith(WL, FS) == BeginStopIterationAt(WL, StartDates, FS)
BeginStopIteration == BeginStopIterationWith(WaypointLists, FieldSets)

\* lines 122-141: what one execution of the loop body computes before the branch
Wind == wx_fields[fcst_time]
Bearing == rhumbline_bearing(here, waypoints[dest])
\* the speed without the floor of one knot
SpeedNoFloor == boat_speed(Wind, Bearing)
Speed == Max2(boat_speed(Wind, Bearing), 1 * Milli)
RelWind == FoldAngle(Abs(Bearing - Wind.dir))
Distance == (Speed * hours(dt))
Remaining == rhumbline_distance(here, waypoints[dest])
Arrives == Distance > Remaining

Leg(t, distance) ==
    [loc |-> here, speed |-> Speed, bearing |-> Bearing, heading |-> Bearing,
     time |-> t, wind |-> Wind, distance |-> distance, rel_wind |-> RelWind]

\* a cursor that advances past the next sample time
required_time_late == dt + SECONDS_IN_HOUR

\* the whole hours of the timestep, whatever the distance left
required_time_whole == hours(dt) * SECONDS_IN_HOUR

\* a cursor that advances by the whole timestep
required_time_full == dt

\* line 144: int(hours(dt) * SECONDS_IN_HOUR * remaining / distance)
required_time == (hours(dt) * SECONDS_IN_HOUR * Remaining) \div Distance

\* lines 142-147, 154, 157: the destination is reached within the timestep
StepArrive ==
    /\ pc = "loop"
    /\ Arrives
    /\ here' = waypoints[dest]
    /\ now' = now + required_time
    /\ dt' = soon - now'
    /\ legs' = Append(legs, Leg(now', Remaining))
    /\ dest' = NextDestination(here', dest)
    /\ pc' = Finish(waypoints, dest')
    /\ outcome' = FinishOutcome(waypoints, dest')
    /\ steps' = steps + 1
    /\ UNCHANGED <<waypoints, wx_fields, logged, fcst_time, soon, time_iter, optvars, sumvars, polarvars, auxvars>>

\* lines 148-157: a full timestep is sailed and another timestamp is available
StepAdvance ==
    /\ pc = "loop"
    /\ ~Arrives
    /\ time_iter < Len(times)
    /\ here' = rhumbline_path(here, Bearing, Distance)
    /\ now' = soon
    /\ fcst_time' = soon
    /\ soon' = times[time_iter + 1]
    /\ time_iter' = time_iter + 1
    /\ dt' = soon' - now'
    /\ legs' = Append(legs, Leg(now', Distance))
    /\ dest' = NextDestination(here', dest)
    /\ pc' = Finish(waypoints, dest')
    /\ outcome' = FinishOutcome(waypoints, dest')
    /\ steps' = steps + 1
    /\ UNCHANGED <<waypoints, wx_fields, logged, optvars, sumvars, polarvars, auxvars>>

\* lines 148-153, 158-159: time_iter.next() raises StopIteration at line 153,
\* after here, now and fcst_time were assigned and before the yield
StepExhausted ==
    /\ pc = "loop"
    /\ ~Arrives
    /\ time_iter >= Len(times)
    /\ here' = rhumbline_path(here, Bearing, Distance)
    /\ now' = soon
    /\ fcst_time' = soon
    /\ logged' = TRUE
    /\ pc' = "done"
    /\ outcome' = "exhausted"
    /\ steps' = steps + 1
    /\ UNCHANGED <<waypoints, wx_fields, dest, soon, dt, time_iter, legs, optvars, sumvars, polarvars, auxvars>>

\* ------------------------------------------------------------------------
\* summarize_passage, applied to the legs of the finished generator
\* ------------------------------------------------------------------------
\* lines 249, 251: the lists of wind speeds (knots) and distances (thousandths
\* of a mile) of the legs
WindSpeeds(passage) == [i \in 1..Len(passage) |-> passage[i].wind.speed]
Distances(passage) == [i \in 1..Len(passage) |-> passage[i].distance]
FinSeqOf(xs, d) == [i \in 1..Len(xs) |-> Fin(xs[i], d)]

\* lines 249-252: the statistics in knots and miles
DistanceStatistics(wind, dist) ==
    [min_dist |-> Fin(np_min(dist), Milli),
     max_dist |-> Fin(np_max(wind), 1),
     avg_dist |-> np_mean(FinSeqOf(wind, 1))]

summarize_passage(passage) ==
    LET wind == WindSpeeds(passage)
        dist == Distances(passage)
        stat == DistanceStatistics(wind, dist)
    IN  [hours |-> hours(passage[Len(passage)].time - passage[1].time),
         distance |-> rhumbline_distance(passage[Len(passage)].loc, passage[1].loc),
         min_wind |-> Fin(np_min(wind), 1),
         max_wind |-> Fin(np_max(wind), 1),
         avg_wind |-> np_mean(FinSeqOf(wind, 1)),
         min_dist |-> stat.min_dist,
         max_dist |-> stat.max_dist,
         avg_dist |-> stat.avg_dist,
         pct_upwind |-> [i \in 1..Len(passage) |-> passage[i].rel_wind < Pi \div 4]]

\* lines 242-254 for a passage with a leg
Summarize ==
    /\ pc = "done"
    /\ sum_outcome = "running"
    /\ legs # << >>
    /\ summary' = summarize_passage(legs)
    /\ sum_outcome' = "returned"
    /\ UNCHANGED <<simvars, optvars, polarvars, auxvars>>

\* line 246 for a passage without a leg: passage[-1] raises IndexError
SummarizeRaises ==
    /\ pc = "done"
    /\ sum_outcome = "running"
    /\ legs = << >>
    /\ sum_outcome' = "IndexError"
    /\ UNCHANGED <<summary, simvars, optvars, polarvars, auxvars>>

Next ==
    \/ Begin
    \/ BeginStopIteration
    \/ StepArrive
    \/ StepAdvance
    \/ StepExhausted
    \/ Summarize
    \/ SummarizeRaises

Spec == Init /\ [][Next]_vars

\* The same generator with its arguments drawn from smaller sets, driven to
\* its end by list(...) in simulate_passages (line 163): a step that can be
\* taken is taken.
TermBegin == BeginWith(TermWaypointLists, TermFieldSets)
TermBeginStopIteration == BeginStopIterationWith(TermWaypointLists, TermFieldSets)
TermNext ==
    TermBegin \/ TermBeginStopIteration \/ StepArrive \/ StepAdvance \/ StepExhausted
TermSpec == Init /\ [][TermNext]_vars /\ WF_vars(TermNext)

\* waypoints a thousandth of a mile apart, reached within less than a second
NearLocs == {0, 1, 3 * Milli}
NearWaypointLists == UNION {[1..n -> NearLocs] : n \in 2..MaxWaypoints}
NearBegin == BeginWith(NearWaypointLists, TermFieldSets)
NearBeginStopIteration == BeginStopIterationWith(NearWaypointLists, TermFieldSets)
NearNext ==
    NearBegin \/ NearBeginStopIteration \/ StepArrive \/ StepAdvance \/ StepExhausted
NearSpec == Init /\ [][NearNext]_vars

\* ------------------------------------------------------------------------
\* Successive runs of simulate_passage on one caller's waypoint list, each
\* driven to its end by list(...) as in simulate_passages (lines 161-164),
\* and summarize_passages applied to their leg sequences (line 289)
\* ------------------------------------------------------------------------
EnsWaypointLists ==
    { <<0, 3 * Milli>>, <<3 * Milli, 0>>, <<0, 3 * Milli, 0>>, <<0, 0, 3 * Milli>> }
\* one run or two runs
EnsFieldLists == [1..1 -> TermFieldSets] \cup [1..2 -> TermFieldSets]

\* a pop that acts on the caller's list
CallerWaypointsPopped(caller) == Tail(caller)

\* lines 105-106: waypoints = list(waypoints) rebinds the name to a copy and
\* waypoints.pop(0) acts on the copy; the caller's list after the run
CallerWaypointsAfter(caller) == caller

EnsInit ==
    /\ InitSim
    /\ InitOpt
    /\ InitSum
    /\ InitPolar
    /\ InitWb
    /\ InitHours
    /\ ens_waypoints \in EnsWaypointLists
    /\ ens_fields \in EnsFieldLists
    /\ ens_dates \in [1..Len(ens_fields) -> StartDates]
    /\ passages = << >>
    /\ rows = << >>
    /\ ens_outcome = "running"

\* the number of the run that is under way or due
Run == Len(passages) + 1

EnsBegin ==
    /\ ens_outcome = "running"
    /\ Run <= Len(ens_fields)
    /\ BeginAt({ens_waypoints}, {ens_dates[Run]}, {ens_fields[Run]})

EnsBeginStopIteration ==
    /\ ens_outcome = "running"
    /\ Run <= Len(ens_fields)
    /\ BeginStopIterationAt({ens_waypoints}, {ens_dates[Run]}, {ens_fields[Run]})

\* line 163: list(simulate_passage(...)) is complete; the generator's frame
\* is gone
CollectPassage ==
    /\ ens_outcome = "running"
    /\ pc = "done"
    /\ passages' = Append(passages, legs)
    /\ ens_waypoints' = CallerWaypointsAfter(ens_waypoints)
    /\ waypoints' = << >>
    /\ wx_fields' = << >>
    /\ pc' = "start"
    /\ outcome' = "running"
    /\ logged' = FALSE
    /\ here' = 0
    /\ dest' = 0
    /\ now' = 0
    /\ fcst_time' = 0
    /\ soon' = 0
    /\ dt' = 0
    /\ time_iter' = 0
    /\ legs' = << >>
    /\ steps' = 0
    /\ UNCHANGED <<ens_dates, ens_fields, rows, ens_outcome,
                   optvars, sumvars, polarvars, wbvars, hoursvars>>

\* lines 214-215: the timestamps of a passage's legs, and the leg a dict
\* built from (l.time, l) pairs holds for a timestamp (the last such leg)
LegTimes(passage) == [i \in 1..Len(passage) |-> passage[i].time]
HasTime(passage, t) == \E i \in 1..Len(passage) : passage[i].time = t
LegAt(passage, t) ==
    passage[CHOOSE i \in 1..Len(passage) :
                /\ passage[i].time = t
                /\ \A j \in 1..Len(passage) : passage[j].time = t => j <= i]

\* line 231: np.min, np.mean and np.max of a field over the members
FieldStats(xs, d) ==
    [min |-> Fin(np_min(xs), d), mean |-> np_mean(FinSeqOf(xs, d)), max |-> Fin(np_max(xs), d)]

\* lines 220-237: the row of timestamp t
Row(ps, t) ==
    LET states == [m \in 1..Len(ps) |-> LegAt(ps[m], t)]
    IN  [time |-> t,
         loc |-> LegAt(ps[1], t).loc,
         wind |-> FieldStats([m \in 1..Len(ps) |-> states[m].wind.speed], 1),
         distance |-> FieldStats([m \in 1..Len(ps) |-> states[m].distance], Milli)]

\* lines 214-240: a row for each timestamp of the first passage in turn; the
\* KeyError of p[t] for a passage without a leg at t is swallowed by the
\* bare except and the row is left out
summarize_passages(ps) ==
    LET kept == SelectSeq(LegTimes(ps[1]),
                          LAMBDA t : \A m \in 1..Len(ps) : HasTime(ps[m], t))
    IN  [i \in 1..Len(kept) |-> Row(ps, kept[i])]

\* lines 211-240 once every run is over
SummarizePassages ==
    /\ ens_outcome = "running"
    /\ pc = "start"
    /\ Run > Len(ens_fields)
    /\ rows' = summarize_passages(passages)
    /\ ens_outcome' = "returned"
    /\ UNCHANGED <<ens_waypoints, ens_dates, ens_fields, passages,
                   simvars, optvars, sumvars, polarvars, wbvars, hoursvars>>

EnsNext ==
    \/ EnsBegin
    \/ EnsBeginStopIteration
    \/ StepArrive
    \/ StepAdvance
    \/ StepExhausted
    \/ CollectPassage
    \/ SummarizePassages

EnsSpec == EnsInit /\ [][EnsNext]_vars

\* ------------------------------------------------------------------------
\* windbreaker (sl/windbreaker.py)
\* ------------------------------------------------------------------------
\* what process_query does with a query: "good" is parsed and answered,
\* "bad" makes parse_saildocs_query raise BadQuery (line 86), "large" gives a
\* compressed forecast of more than 25000 bytes (line 103), "crash" raises
\* an exception that is not a BadQuery (such as the assert of line 59)
QueryKinds == {"good", "bad", "large", "crash"}
QueryLists == UNION {[1..n -> QueryKinds] : n \in 0..MaxQueries}

ErrorEmail(q) == [kind |-> "error", query |-> q]
ForecastEmail(q) == [kind |-> "forecast", query |-> q]

WbInit ==
    /\ InitSim
    /\ InitOpt
    /\ InitSum
    /\ InitPolar
    /\ InitEns
    /\ InitHours
    /\ wb_bodies \in 0..2
    /\ wb_sailmail \in BOOLEAN
    /\ wb_queries \in QueryLists
    /\ wb_next = 0
    /\ wb_sent = << >>
    /\ wb_pc = "start"
    /\ wb_outcome = "running"

\* lines 133-135: an error email when the email has not one body; the
\* function goes on
BodyError == IF wb_bodies # 1 THEN <<ErrorEmail(0)>> ELSE << >>

\* lines 130-142 for an email with a body
WbStart ==
    /\ wb_pc = "start"
    /\ wb_bodies >= 1
    /\ wb_sent' = BodyError \o (IF Len(wb_queries) = 0 THEN <<ErrorEmail(0)>> ELSE << >>)
    /\ wb_next' = 1
    /\ wb_pc' = "loop"
    /\ UNCHANGED <<wb_bodies, wb_sailmail, wb_queries, wb_outcome,
                   simvars, optvars, sumvars, polarvars, ensvars, hoursvars>>

\* lines 130-138 for an email without a body: email_body[0] raises IndexError
WbStartRaises ==
    /\ wb_pc = "start"
    /\ wb_bodies = 0
    /\ wb_sent' = BodyError
    /\ wb_pc' = "done"
    /\ wb_outcome' = "IndexError"
    /\ UNCHANGED <<wb_bodies, wb_sailmail, wb_queries, wb_next,
                   simvars, optvars, sumvars, polarvars, ensvars, hoursvars>>

\* line 86, lines 103-105: the query does not parse, or the forecast is too
\* large for a sailmail address
RaisesBadQuery(q) == wb_queries[q] = "bad" \/ (wb_queries[q] = "large" /\ wb_sailmail)
Answered(q) == wb_queries[q] = "good" \/ (wb_queries[q] = "large" /\ ~wb_sailmail)

\* lines 143-147 and 86-119: the query is processed and its forecast sent
WbAnswer ==
    /\ wb_pc = "loop"
    /\ wb_next <= Len(wb_queries)
    /\ Answered(wb_next)
    /\ wb_sent' = Append(wb_sent, ForecastEmail(wb_next))
    /\ wb_next' = wb_next + 1
    /\ UNCHANGED <<wb_bodies, wb_sailmail, wb_queries, wb_pc, wb_outcome,
                   simvars, optvars, sumvars, polarvars, ensvars, hoursvars>>

\* a handler that goes on with the next query
AfterBadQueryContinue == [pc |-> "loop", outcome |-> "running", next |-> wb_next + 1]

\* line 157: raise leaves the loop and the function
AfterBadQuery == [pc |-> "done", outcome |-> "BadQuery", next |-> wb_next]

\* lines 148-157: process_query raised BadQuery
WbBadQuery ==
    /\ wb_pc = "loop"
    /\ wb_next <= Len(wb_queries)
    /\ RaisesBadQuery(wb_next)
    /\ wb_sent' = Append(wb_sent, ErrorEmail(wb_next))
    /\ wb_pc' = AfterBadQuery.pc
    /\ wb_outcome' = AfterBadQuery.outcome
    /\ wb_next' = AfterBadQuery.next
    /\ UNCHANGED <<wb_bodies, wb_sailmail, wb_queries,
                   simvars, optvars, sumvars, polarvars, ensvars, hoursvars>>

\* lines 144-148: an exception that is not a BadQuery passes the handler
WbCrash ==
    /\ wb_pc = "loop"
    /\ wb_next <= Len(wb_queries)
    /\ wb_queries[wb_next] = "crash"
    /\ wb_pc' = "done"
    /\ wb_outcome' = "Exception"
    /\ UNCHANGED <<wb_bodies, wb_sailmail, wb_queries, wb_next, wb_sent,
                   simvars, optvars, sumvars, polarvars, ensvars, hoursvars>>

\* line 143: the for loop has no further query
WbFinish ==
    /\ wb_pc = "loop"
    /\ wb_next > Len(wb_queries)
    /\ wb_pc' = "done"
    /\ wb_outcome' = "returned"
    /\ UNCHANGED <<wb_bodies, wb_sailmail, wb_queries, wb_next, wb_sent,
                   simvars, optvars, sumvars, polarvars, ensvars, hoursvars>>

WbNext == WbStart \/ WbStartRaises \/ WbAnswer \/ WbBadQuery \/ WbCrash \/ WbFinish
WbSpec == WbInit /\ [][WbNext]_vars

\* ------------------------------------------------------------------------
\* parse_hours (sl/lib/saildocs.py)
\* ------------------------------------------------------------------------
\* An hours string is a sequence of symbols: a number of hours (a run of
\* digits) is one symbol, and so are ',' and '.'.  The strings drawn here
\* hold whole numbers, and '.' only in ellipses.
Comma == 0 - 1
Dot == 0 - 2

HourValues == {0, 6, 12, 24}
Ellipses == {<<Dot, Dot, Dot>>, <<Dot, Dot>>, <<Comma, Dot, Dot, Dot>>, <<Dot, Dot, Dot, Comma>>}

RECURSIVE JoinComma(_)
JoinComma(hs) ==
    IF Len(hs) = 0 THEN << >>
    ELSE IF Len(hs) = 1 THEN <<hs[1]>>
    ELSE <<hs[1], Comma>> \o JoinComma(Tail(hs))

\* the strings the usage text calls equivalent (lines 46-51)
ExampleEllipsis == <<0, Comma, 6, Comma, 12, Comma, 24, Dot, Dot, Dot, 72>>
ExampleExpanded == JoinComma(<<0, 6, 12, 24, 36, 48, 60, 72>>)

\* hours listed, then possibly a range and possibly an hour after it
HoursStrings ==
    LET ListedHours == UNION {[1..n -> HourValues] : n \in 0..MaxListed}
        Ranges == {<<low>> \o e \o <<high>> :
                       low \in HourValues, high \in HourValues, e \in Ellipses}
        AfterRange == {<< >>} \cup {<<Comma, h>> : h \in HourValues}
    IN  {JoinComma(hs) : hs \in ListedHours \ {<< >>}}
        \cup {JoinComma(hs) \o (IF hs = << >> THEN << >> ELSE <<Comma>>) \o r \o a :
                   hs \in ListedHours, r \in Ranges, a \in AfterRange}
        \cup {ExampleEllipsis, ExampleExpanded}
HoursInputs ==
    {[given |-> FALSE, str |-> << >>]} \cup {[given |-> TRUE, str |-> x] : x \in HoursStrings}

\* line 253: re.sub('\.,|,\.', '.', hours_str), matches taken left to right
RECURSIVE re_sub(_)
re_sub(str) ==
    IF Len(str) < 2 THEN str
    ELSE IF \/ str[1] = Dot /\ str[2] = Comma
            \/ str[1] = Comma /\ str[2] = Dot
         THEN <<Dot>> \o re_sub(SubSeq(str, 3, Len(str)))
         ELSE <<str[1]>> \o re_sub(Tail(str))

\* line 257: hours_str.split(',')
RECURSIVE split(_)
split(str) ==
    IF \A i \in 1..Len(str) : str[i] # Comma THEN <<str>>
    ELSE LET i == CHOOSE k \in 1..Len(str) :
                      str[k] = Comma /\ \A j \in 1..(k - 1) : str[j] # Comma
         IN  <<SubSeq(str, 1, i - 1)>> \o split(SubSeq(str, i + 1, Len(str)))

\* line 258: '..' in hr
has_ellipsis(hr) == \E i \in 1..(Len(hr) - 1) : hr[i] = Dot /\ hr[i + 1] = Dot

\* line 260: re.split('\.{2,}', hr)
RECURSIVE re_split(_)
re_split(hr) ==
    IF ~has_ellipsis(hr) THEN <<hr>>
    ELSE LET i == CHOOSE k \in 1..(Len(hr) - 1) :
                      /\ hr[k] = Dot /\ hr[k + 1] = Dot
                      /\ \A j \in 1..(k - 1) : ~(hr[j] = Dot /\ hr[j + 1] = Dot)
             j == CHOOSE k \in (i + 1)..Len(hr) :
                      /\ \A m \in i..k : hr[m] = Dot
                      /\ (k = Len(hr) \/ hr[k + 1] # Dot)
         IN  <<SubSeq(hr, 1, i - 1)>> \o re_split(SubSeq(hr, j + 1, Len(hr)))

\* float(): a token of these strings is a float literal when it is one number
is_float(tok) == Len(tok) = 1 /\ tok[1] >= 0

\* np.mod of whole numbers with a divisor other than 0: the sign of the divisor
np_mod(a, b) == IF b > 0 THEN a % b ELSE 0 - ((0 - a) % (0 - b))

\* np.linspace(low, high, num, endpoint=True) where (high - low) is
\* (num - 1) steps of diff; no samples for num <= 0
RECURSIVE np_linspace(_, _, _)
np_linspace(low, diff, num) ==
    IF num <= 0 THEN << >> ELSE <<low>> \o np_linspace(low + diff, diff, num - 1)

\* lines 258-272 for one token, in the frame of iter_hours: prev is a local
\* of iter_hours (line 271 assigns it), unbound until the first hour is
\* yielded; the prev of line 250 is another variable
iter_token(frame, hr) ==
    IF frame.outcome # "returned" THEN frame
    ELSE IF has_ellipsis(hr) THEN
        LET parts == re_split(hr) IN
        IF Len(parts) # 2 \/ \E i \in 1..Len(parts) : ~is_float(parts[i])
        THEN [frame EXCEPT !.outcome = "ValueError"]
        ELSE IF frame.prev = << >>
        THEN [frame EXCEPT !.outcome = "UnboundLocalError"]
        ELSE LET low == parts[1][1]
                 high == parts[2][1]
                 diff == low - frame.prev[1]
             IN  \* np.mod(x, 0.) is nan, which is true
                 IF diff = 0 \/ np_mod(high - low, diff) # 0
                 THEN [frame EXCEPT !.outcome = "BadQuery"]
                 ELSE LET hrs == np_linspace(low, diff, ((high - low) \div diff) + 1)
                      IN  [frame EXCEPT !.hours = @ \o hrs,
                                        !.prev = IF hrs = << >> THEN @
                                                 ELSE <<hrs[Len(hrs)]>>]
    ELSE IF ~is_float(hr) THEN [frame EXCEPT !.outcome = "ValueError"]
    ELSE [frame EXCEPT !.hours = Append(@, hr[1]), !.prev = <<hr[1]>>]

RECURSIVE iter_hours(_, _)
iter_hours(frame, toks) ==
    IF toks = << >> THEN frame ELSE iter_hours(iter_token(frame, toks[1]), Tail(toks))

parse_hours(hours_str) ==
    IF ~hours_str.given
    THEN [outcome |-> "returned", hours |-> <<24, 48, 72>>,
          warnings |-> <<"No hours defined, using default of 24,48,72">>]
    ELSE LET frame == iter_hours([outcome |-> "returned", hours |-> << >>, prev |-> << >>],
                                 split(re_sub(hours_str.str)))
         IN  [outcome |-> frame.outcome,
              hours |-> IF frame.outcome = "returned" THEN frame.hours ELSE << >>,
              warnings |-> << >>]

HoursInit ==
    /\ InitSim
    /\ InitOpt
    /\ InitSum
    /\ InitPolar
    /\ InitEns
    /\ InitWb
    /\ hours_in \in {<<x>> : x \in HoursInputs}
    /\ hours_out = << >>

ApplyParseHours ==
    /\ hours_in # << >>
    /\ hours_out = << >>
    /\ hours_out' = <<parse_hours(hours_in[1])>>
    /\ UNCHANGED <<hours_in, simvars, optvars, sumvars, polarvars, ensvars, wbvars>>

HoursNext == ApplyParseHours
HoursSpec == HoursInit /\ [][HoursNext]_vars

TypeOK ==
    /\ pc \in {"start", "loop", "done"}
    /\ outcome \in {"running", "finished", "exhausted", "stopiteration"}
    /\ logged \in BOOLEAN

\* ------------------------------------------------------------------------
\* boat_speed, called on its own
\* ------------------------------------------------------------------------
\* compass directions of the wind and of the course in whole degrees: head
\* to wind, either side of MAX_POINTING, abeam, astern, and differences
\* above pi that are folded
Angles == {0, 10, 20, 21, 45, 90, 170, 180, 200, 270, 340, 350, 359}
PolarSpeeds == 0..(MAX_WIND_SPEED + MaxGust)
PolarInputs ==
    {[wind |-> [speed |-> w, dir |-> d], bearing |-> b] :
        w \in PolarSpeeds, d \in Angles, b \in Angles}

PolarInit ==
    /\ InitSim
    /\ InitOpt
    /\ InitSum
    /\ InitEns
    /\ InitWb
    /\ InitHours
    /\ polar_in \in {<<call>> : call \in PolarInputs}
    /\ polar_out = << >>

\* lines 80-89
ApplyBoatSpeed ==
    /\ polar_in # << >>
    /\ polar_out = << >>
    /\ polar_out' = <<boat_speed(polar_in[1].wind, polar_in[1].bearing)>>
    /\ UNCHANGED <<polar_in, simvars, optvars, sumvars, auxvars>>

PolarNext == ApplyBoatSpeed
PolarSpec == PolarInit /\ [][PolarNext]_vars

\* ------------------------------------------------------------------------
\* Claims about simulate_passage
\* ------------------------------------------------------------------------
LastLeg == legs[Len(legs)]
LastWaypoint == waypoints[Len(waypoints)]
\* every waypoint after the first was the destination and was reached
AllReached == pc # "start" /\ NextDestination(here, Max2(dest, 2)) > Len(waypoints)
\* one step per destination and one per timestamp after the first
StepBound == (Len(waypoints) - 1) + (Len(times) - 1)

\* C1: on every finite time axis the generator comes to its end, and the
\* loop body runs at most once per destination plus once per timestamp after
\* the first, since every iteration reaches the destination or takes a
\* timestamp from the iterator.
C1_Terminates == <>(pc = "done") /\ [](pc # "start" => steps <= StepBound)

C1_Witness == pc = "done" /\ steps >= 3

\* C2: every leg has a speed of at least 1.0 knot and a distance >= 0.
C2_LegSpeedDistance ==
    \A i \in 1..Len(legs) : legs[i].speed >= 1 * Milli /\ legs[i].distance >= 0

\* a run with a leg sailed at the floor speed in wind above the safety
\* cutoff in the advance branch (its time is a timestamp of the axis) and a
\* leg of the arrival branch (its time lies between two timestamps)
C2_Witness ==
    /\ \E i \in 1..Len(legs) :
         /\ legs[i].wind.speed > MAX_WIND_SPEED
         /\ legs[i].speed = 1 * Milli
         /\ legs[i].time \in DOMAIN wx_fields
         /\ legs[i].distance > 0
    /\ \E i \in 1..Len(legs) : legs[i].time \notin DOMAIN wx_fields

\* C3: when the generator ends before every waypoint was reached, the
\* exhaustion of the time axis was reported, wherever the missing timestamp
\* was asked for.
C3_ExhaustionReported == (pc = "done" /\ ~AllReached) => logged

\* C4: one leg is emitted per executed step, the step in which the axis is
\* exhausted included.
C4_OneLegPerStep == Len(legs) = steps

\* C5: a step whose achievable distance is greater than or equal to the
\* remaining distance is an arrival step: the location becomes the target,
\* the target is popped, the leg's distance is the remaining distance and no
\* timestamp is taken from the axis.
C5_ArrivalOnEquality ==
    [][(pc = "loop" /\ Distance >= Remaining) =>
         /\ here' = waypoints[dest]
         /\ dest' > dest
         /\ time_iter' = time_iter
         /\ Len(legs') = Len(legs) + 1
         /\ legs'[Len(legs')].distance = Remaining]_vars

\* C6: each emitted leg carries the location reached at the end of its step
\* and the time after the step; the last leg of a run that reaches the last
\* waypoint carries the destination.
C6_LegLocationReached ==
    [][Len(legs') > Len(legs) =>
         /\ legs'[Len(legs')].loc = here'
         /\ legs'[Len(legs')].time = now'
         /\ (outcome' = "finished" => legs'[Len(legs')].loc = LastWaypoint')]_vars

\* C7: the target changes only when the location equals the target, no step
\* goes beyond the target, a run that ends without a report of exhaustion
\* ends at the last waypoint with every waypoint reached, and a run that
\* reaches the last waypoint reports no exhaustion.
C7_ReachedIffNotExhausted ==
    [][/\ (pc = "loop" /\ dest' # dest) => here' = waypoints[dest]
       /\ pc = "loop" => rhumbline_distance(here, here') <= Remaining
       /\ (pc' = "done" /\ ~logged') => (AllReached' /\ here' = LastWaypoint')
       /\ (pc' = "done" /\ AllReached') => ~logged']_vars
\* ------------------------------------------------------------------------
\* optimal_passage
\* ------------------------------------------------------------------------
LatLon(lat, lon) == [lat |-> lat, lon |-> lon]

\* a summary as summarize_passage returns it, as far as optimal_passage reads it
Summary(h, d, w, up) ==
    [hours |-> h, distance |-> d, max_wind |-> w, pct_upwind |-> up]
SumBest == Summary(1, 6, 30, <<FALSE, FALSE>>)
SumSlow == Summary(2, 3, 30, <<TRUE, FALSE>>)
SumGale == Summary(1, 6, 40, <<FALSE, FALSE>>)
SumEdge == Summary(2, 6, 35, <<FALSE, FALSE>>)
SumQuick == Summary(1, 3, 30, <<FALSE, FALSE>>)
SumNull == Summary(0, 0, 20, <<FALSE, FALSE>>)
SumStorm == Summary(1, 3, 36, <<FALSE, FALSE>>)

\* route(x) for an ensemble of one field set and of two field sets
RoutesOfOne ==
    {<<sm>> : sm \in {SumBest, SumSlow, SumGale, SumEdge, SumQuick, SumNull, SumStorm}}
RoutesOfTwo == { <<SumBest, SumBest>>, <<SumBest, SumGale>>, <<SumGale, SumBest>>,
                 <<SumSlow, SumEdge>>, <<SumNull, SumNull>>, <<SumStorm, SumGale>>,
                 <<SumEdge, SumBest>>, <<SumSlow, SumQuick>> }
Endpoints == { <<LatLon(0, 0), LatLon(0, 6)>>, <<LatLon(0, 0), LatLon(6, 3)>>,
               <<LatLon(3, 3), LatLon(3, 3)>> }
\* the sizes of the ensembles of RoutesOfOne and RoutesOfTwo
EnsembleSizes == {Len(rt) : rt \in RoutesOfOne \cup RoutesOfTwo}

\* lines 181-182, 191: the candidate for x = k / r, its coordinates in
\* multiples of 1 / r
Candidate(s, e, r, k) ==
    LET c1 == LatLon(s.lat, e.lon)
        c2 == LatLon(e.lat, s.lon)
    IN  LatLon(k * c1.lat + (r - k) * c2.lat, k * c1.lon + (r - k) * c2.lon)

\* lines 161-164, 184-186, 192: the calls of simulate_passage made while the
\* routes of the first upto candidates are built, one per field set of the
\* ensemble of n members for each candidate in turn
SimCalls(s, e, r, n, upto) ==
    [i \in 1..(upto * n) |->
        [waypoints |-> <<s, Candidate(s, e, r, (i - 1) \div n), e>>,
         field |-> ((i - 1) % n) + 1]]

\* lines 181-192: the candidates are generated and each is simulated on
\* every field set and summarized
Evaluate ==
    /\ opt_pc = "start"
    /\ \E se \in Endpoints, r \in 1..MaxResol, RS \in {RoutesOfOne, RoutesOfTwo} :
         \E summaries \in [1..r -> RS] :
            /\ se[1] # se[2]
            /\ start' = se[1]
            /\ end' = se[2]
            /\ resol' = r
            /\ routes' = [i \in 1..r |->
                            [x |-> Candidate(se[1], se[2], r, i - 1),
                             route |-> summaries[i]]]
            /\ sim_log' = SimCalls(se[1], se[2], r, Len(summaries[1]), r)
    /\ opt_pc' = "evaluated"
    /\ UNCHANGED <<result, opt_outcome, simvars, sumvars, polarvars, auxvars>>

\* lines 184-192 when the passage of some member for candidate k has no leg:
\* every member was simulated for that candidate (line 186) and
\* summarize_passage raises IndexError at passage[-1] (line 246) on the
\* first empty passage.  With start equal to end the three waypoints of the
\* first route are one place and its passages have no leg.
EvaluateRaises ==
    /\ opt_pc = "start"
    /\ \E se \in Endpoints, r \in 1..MaxResol, n \in EnsembleSizes, k \in 1..MaxResol :
            /\ k <= r
            /\ se[1] = se[2] => k = 1
            /\ start' = se[1]
            /\ end' = se[2]
            /\ resol' = r
            /\ sim_log' = SimCalls(se[1], se[2], r, n, k)
    /\ opt_pc' = "done"
    /\ opt_outcome' = "IndexError"
    /\ UNCHANGED <<routes, result, simvars, sumvars, polarvars, auxvars>>

\* line 191 with resol = 0: 1./resol raises ZeroDivisionError
EvaluateZeroDivision ==
    /\ opt_pc = "start"
    /\ \E se \in Endpoints :
            /\ start' = se[1]
            /\ end' = se[2]
    /\ resol' = 0
    /\ opt_pc' = "done"
    /\ opt_outcome' = "ZeroDivisionError"
    /\ UNCHANGED <<routes, result, sim_log, simvars, sumvars, polarvars, auxvars>>

\* lines 191-192 with resol < 0: np.arange(0., 1., step) with a negative
\* step is empty, no candidate is generated and routes is the empty list
EvaluateNoCandidates ==
    /\ opt_pc = "start"
    /\ \E se \in Endpoints, r \in (0 - MaxResol)..(0 - 1) :
            /\ start' = se[1]
            /\ end' = se[2]
            /\ resol' = r
    /\ routes' = << >>
    /\ opt_pc' = "evaluated"
    /\ UNCHANGED <<result, opt_outcome, sim_log, simvars, sumvars, polarvars, auxvars>>

Field(route, name) == [i \in 1..Len(route) |-> route[i][name]]
FinSeq(xs) == [i \in 1..Len(xs) |-> Fin(xs[i], 1)]

\* a filter that lets every route pass
issafe_always(route) == TRUE

\* lines 194-196
issafe(route) == np_max(Field(route, "max_wind")) <= MAX_WIND_SPEED

\* line 197
safe_routes == SelectSeq(routes, LAMBDA rt : issafe(rt.route))

\* lines 199-200
avg_times ==
    np_mean([i \in 1..Len(routes) |-> np_mean(FinSeq(Field(routes[i].route, "hours")))])
avg_distances ==
    np_mean([i \in 1..Len(routes) |-> np_mean(FinSeq(Field(routes[i].route, "distance")))])

\* np.mean of the lists of booleans of a route, all of one length
RECURSIVE Flatten(_)
Flatten(xss) == IF xss = << >> THEN << >> ELSE Head(xss) \o Flatten(Tail(xss))
BoolSeq(bs) == [i \in 1..Len(bs) |-> Fin(IF bs[i] THEN 1 ELSE 0, 1)]

\* lines 201-206
idealness(route) ==
    LET time == np_mean(FinSeq(Field(route, "hours")))
        dist == np_mean(FinSeq(Field(route, "distance")))
        pct_upwind == np_mean(BoolSeq(Flatten(Field(route, "pct_upwind"))))
    IN  FAdd(FAdd(FDiv(FSub(time, avg_times), avg_times),
                  FSub(FDiv(avg_distances, dist), Fin(1, 1))),
             pct_upwind)

\* line 207
idealness_list == [i \in 1..Len(safe_routes) |-> idealness(safe_routes[i].route)]

\* lines 194-209 when some route is safe
SelectRoute ==
    /\ opt_pc = "evaluated"
    /\ safe_routes # << >>
    /\ result' = safe_routes[np_argmin(idealness_list)].x
    /\ opt_pc' = "done"
    /\ opt_outcome' = "returned"
    /\ UNCHANGED <<start, end, resol, routes, sim_log, simvars, sumvars, polarvars, auxvars>>

\* lines 194-209 when no route is safe: np.argmin of an empty list raises
\* ValueError (attempt to get argmin of an empty sequence)
SelectRaises ==
    /\ opt_pc = "evaluated"
    /\ safe_routes = << >>
    /\ opt_pc' = "done"
    /\ opt_outcome' = "ValueError"
    /\ UNCHANGED <<start, end, resol, routes, result, sim_log, simvars, sumvars, polarvars, auxvars>>

OptNext ==
    \/ Evaluate
    \/ EvaluateRaises
    \/ EvaluateZeroDivision
    \/ EvaluateNoCandidates
    \/ SelectRoute
    \/ SelectRaises
OptSpec == Init /\ [][OptNext]_vars
\* ------------------------------------------------------------------------
\* Claims about optimal_passage
\* ------------------------------------------------------------------------
Candidates == 1..Len(routes)
Members(k) == 1..Len(routes[k].route)
Returned(k) == opt_outcome = "returned" /\ routes[k].x = result
\* every ensemble member's summary has max_wind <= MAX_WIND_SPEED
IsSafe(k) == \A m \in Members(k) : routes[k].route[m].max_wind <= MAX_WIND_SPEED

RECURSIVE SumOver(_, _)
SumOver(f, n) == IF n = 0 THEN 0 ELSE f[n] + SumOver(f, n - 1)
SumHours(k) == SumOver([m \in Members(k) |-> routes[k].route[m].hours], Len(routes[k].route))
SumDist(k) == SumOver([m \in Members(k) |-> routes[k].route[m].distance], Len(routes[k].route))
UpCount(k) ==
    SumOver([m \in Members(k) |->
               Cardinality({i \in 1..Len(routes[k].route[m].pct_upwind) :
                              routes[k].route[m].pct_upwind[i]})],
            Len(routes[k].route))
LegCount(k) ==
    SumOver([m \in Members(k) |-> Len(routes[k].route[m].pct_upwind)], Len(routes[k].route))
TotHours == SumOver([k \in Candidates |-> SumHours(k)], Len(routes))
TotDist == SumOver([k \in Candidates |-> SumDist(k)], Len(routes))

\* (time - avg_time)/avg_time + (avg_distance/distance - 1) + pct_upwind, with
\* the means taken over all candidates, plus 2 and as one fraction:
\*   R * hours_k / total hours + total distance / (R * distance_k) + up_k / legs_k
CostNum(k) ==
    Len(routes) * SumHours(k) * (Len(routes) * SumDist(k)) * LegCount(k)
    + TotDist * TotHours * LegCount(k)
    + UpCount(k) * TotHours * (Len(routes) * SumDist(k))
CostDen(k) == TotHours * (Len(routes) * SumDist(k)) * LegCount(k)
CostLess(j, k) == CostNum(j) * CostDen(k) < CostNum(k) * CostDen(j)
\* the idealness of every candidate is a finite number
Regular == TotHours > 0 /\ \A k \in Candidates : SumDist(k) > 0

\* C8: a returned waypoint is one of the generated candidates and every
\* ensemble member's summary for it has max_wind <= MAX_WIND_SPEED.
C8_ReturnedIsSafeCandidate ==
    opt_outcome = "returned" => \E k \in Candidates : Returned(k) /\ IsSafe(k)

\* an unsafe candidate, one of whose two members is safe, has a lower
\* idealness than the candidate returned
C8_Witness ==
    /\ Regular
    /\ \E k, u \in Candidates :
         /\ Returned(k)
         /\ ~IsSafe(u)
         /\ \E m \in Members(u) : routes[u].route[m].max_wind <= MAX_WIND_SPEED
         /\ CostLess(u, k)

\* C9: the returned candidate is safe, no safe candidate has a lower
\* idealness, and every safe candidate generated before it has a higher one
\* (where the idealness of every candidate is a finite number).
C9_MinimumIdealnessFirst ==
    (opt_outcome = "returned" /\ Regular) =>
        \E k \in Candidates :
            /\ Returned(k)
            /\ IsSafe(k)
            /\ \A j \in Candidates : IsSafe(j) => ~CostLess(j, k)
            /\ \A j \in Candidates : (IsSafe(j) /\ j < k) => CostLess(k, j)

\* the candidate returned ties with a later safe candidate, and an unsafe
\* candidate that enters the means was generated before it
C9_Witness ==
    /\ Regular
    /\ \E u, k, j \in Candidates :
         /\ u < k
         /\ k < j
         /\ ~IsSafe(u)
         /\ Returned(k)
         /\ IsSafe(j)
         /\ ~CostLess(j, k)
         /\ ~CostLess(k, j)

\* C10: when no candidate is safe, a NoFeasibleRoute outcome is reported to
\* the caller and no route is chosen.
C10_NoFeasibleRouteReported ==
    (opt_pc = "done" /\ \A k \in Candidates : ~IsSafe(k)) =>
        (opt_outcome = "NoFeasibleRoute" /\ result = None)

\* C11: for degenerate input, start equal to end or resol <= 0, no call of
\* simulate_passage is made.
C11_DegenerateNotSimulated ==
    (opt_pc # "start" /\ (start = end \/ resol <= 0)) => sim_log = << >>

\* the point at t = k / resol on the line from the corner (end.lat, start.lon)
\* to the corner (start.lat, end.lon), its coordinates in multiples of 1 / resol
Interpolated(k) ==
    [lat |-> (resol - k) * end.lat + k * start.lat,
     lon |-> (resol - k) * start.lon + k * end.lon]

\* C17: for resol >= 1 the candidates are the resol interpolated points at
\* t = 0, 1/resol, ..., (resol-1)/resol in this order, and each is simulated
\* as the route [start, candidate, end] once on every field set of the
\* ensemble.
C17_EveryCandidateSimulated ==
    (opt_pc # "start" /\ resol >= 1) =>
        \E n \in EnsembleSizes :
            /\ Len(sim_log) = resol * n
            /\ \A k \in 0..(resol - 1), m \in 1..n :
                  sim_log[k * n + m] =
                      [waypoints |-> <<start, Interpolated(k), end>>, field |-> m]

\* ------------------------------------------------------------------------
\* Claims about summarize_passage
\* ------------------------------------------------------------------------
\* m is the least (greatest) of the numbers xs, counted in units of 1/d
IsMinOf(m, xs, d) ==
    /\ \E i \in 1..Len(xs) : m = Fin(xs[i], d)
    /\ \A i \in 1..Len(xs) : ~FLess(Fin(xs[i], d), m)
IsMaxOf(m, xs, d) ==
    /\ \E i \in 1..Len(xs) : m = Fin(xs[i], d)
    /\ \A i \in 1..Len(xs) : ~FLess(m, Fin(xs[i], d))
IsMeanOf(m, xs, d) ==
    m.k = "fin" /\ m.n * (Len(xs) * d) = SumOver(xs, Len(xs)) * m.d

\* C12: min_wind, max_wind and avg_wind are the least, the greatest and the
\* mean of the legs' wind speeds, and min_dist, max_dist and avg_dist are the
\* least, the greatest and the mean of the legs' distances.
C12_WindAndDistanceStatistics ==
    sum_outcome = "returned" =>
        /\ IsMinOf(summary.min_wind, WindSpeeds(legs), 1)
        /\ IsMaxOf(summary.max_wind, WindSpeeds(legs), 1)
        /\ IsMeanOf(summary.avg_wind, WindSpeeds(legs), 1)
        /\ IsMinOf(summary.min_dist, Distances(legs), Milli)
        /\ IsMaxOf(summary.max_dist, Distances(legs), Milli)
        /\ IsMeanOf(summary.avg_dist, Distances(legs), Milli)

\* ------------------------------------------------------------------------
\* Claims about boat_speed
\* ------------------------------------------------------------------------
PolarWind == polar_in[1].wind
PolarBearing == polar_in[1].bearing
PolarOffWind == FoldAngle(Abs(PolarWind.dir - PolarBearing))

\* C13: boat_speed returns 0 for every wind speed <= MIN_WIND_SPEED or
\* > MAX_WIND_SPEED whatever the two directions are, and for every input a
\* value from 0 to MAX_BOAT_SPEED.
C13_ZeroOutsideWindowAndBounded ==
    polar_out # << >> =>
        /\ (PolarWind.speed <= MIN_WIND_SPEED \/ PolarWind.speed > MAX_WIND_SPEED)
              => polar_out[1] = 0
        /\ polar_out[1] >= 0
        /\ polar_out[1] <= MAX_BOAT_SPEED * Milli

\* a call in wind above the safety cutoff on a beam reach, where the polar
\* below the cutoff gives MAX_BOAT_SPEED
C13_Witness ==
    /\ polar_out = <<0>>
    /\ PolarWind.speed > MAX_WIND_SPEED
    /\ PolarOffWind > MAX_POINTING

\* the polar in the same two directions as the call, in a wind of w knots
PolarAt(w) == boat_speed([PolarWind EXCEPT !.speed = w], PolarBearing)

\* C14: with the two directions fixed, boat_speed does not decrease as the
\* wind speed rises within (MIN_WIND_SPEED, REQ_WIND_SPEED], and the ramp
\* at REQ_WIND_SPEED gives the value of the plateau, which is the value
\* just above REQ_WIND_SPEED.
C14_MonotoneAndContinuous ==
    polar_out # << >> =>
        /\ (PolarWind.speed > MIN_WIND_SPEED /\ PolarWind.speed <= REQ_WIND_SPEED) =>
              \A w \in PolarSpeeds :
                 (w > MIN_WIND_SPEED /\ w <= PolarWind.speed) => PolarAt(w) <= polar_out[1]
        /\ PolarWind.speed = REQ_WIND_SPEED =>
              /\ polar_out[1] = directional_max_speed(PolarOffWind)
              /\ polar_out[1] = PolarAt(REQ_WIND_SPEED + 1)

\* a call at REQ_WIND_SPEED close to the wind, where directional_max_speed
\* lies between half of and the whole of MAX_BOAT_SPEED
C14_Witness ==
    /\ polar_out # << >>
    /\ PolarWind.speed = REQ_WIND_SPEED
    /\ PolarOffWind > 0
    /\ PolarOffWind < MAX_POINTING
    /\ polar_out[1] > PolarAt(REQ_WIND_SPEED - 1)

\* ------------------------------------------------------------------------
\* Claims about the distances and times of simulate_passage
\* ------------------------------------------------------------------------
\* the same wind at every timestamp
ConstantWind == \A t, u \in DOMAIN wx_fields : wx_fields[t] = wx_fields[u]
\* a route of a start and an end that differ
TwoPoint == Len(waypoints) = 2 /\ waypoints[1] # waypoints[2]
LegDistanceSum == SumOver(Distances(legs), Len(legs))

\* C15: in constant wind on a route of two points, when the destination is
\* reached at a timestamp of the axis, the distances of the emitted legs add
\* up to the rhumbline distance from start to end.
C15_DistancesSumToDirect ==
    (pc = "done" /\ TwoPoint /\ ConstantWind
        /\ here = waypoints[2] /\ now \in DOMAIN wx_fields) =>
            LegDistanceSum = rhumbline_distance(waypoints[1], waypoints[2])

\* C16: the hours of a summary are the time from the first leg's timestamp
\* to the last leg's, in hours, whatever the two timestamps are.
C16_HoursIsElapsedTime ==
    sum_outcome = "returned" =>
        summary.hours * SECONDS_IN_HOUR = legs[Len(legs)].time - legs[1].time

\* C18: in every step the distance that can be sailed is the speed times the
\* time from the cursor to the next sample, fractions of an hour included,
\* also in the shortened timestep after an arrival; the leg of a step that
\* does not arrive has the distance speed times the time by which the cursor
\* advances.
C18_DistanceIsSpeedTimesTime ==
    [][pc = "loop" =>
         /\ Distance * SECONDS_IN_HOUR = Speed * dt
         /\ (Len(legs') > Len(legs) /\ time_iter' # time_iter) =>
               legs'[Len(legs')].distance * SECONDS_IN_HOUR
                   = legs'[Len(legs')].speed * (now' - now)]_vars

\* C19: on a step that arrives the cursor advances by the prorated time
\* dt_seconds * remaining / distance (in whole seconds, dt_seconds being the
\* seconds of the hours from which the distance was computed), which is less
\* than the timestep; the next sample time and the sampled timestamp stay as
\* they are, and the dt of the following step is next sample - new cursor.
C19_ArrivalProrated ==
    [][(pc = "loop" /\ Arrives) =>
         LET dt_seconds == hours(dt) * SECONDS_IN_HOUR
         IN  /\ (now' - now) * Distance <= dt_seconds * Remaining
             /\ dt_seconds * Remaining < (now' - now + 1) * Distance
             /\ (now' - now) * Speed <= SECONDS_IN_HOUR * Remaining
             /\ SECONDS_IN_HOUR * Remaining < (now' - now + 1) * Speed
             /\ now' < soon
             /\ soon' = soon
             /\ fcst_time' = fcst_time
             /\ time_iter' = time_iter
             /\ dt' = soon' - now']_vars

\* the generator stands before the step that follows an arrival at an
\* intermediate waypoint between two timestamps, with the rest of the
\* timestep as its dt
C19_Witness ==
    /\ pc = "loop"
    /\ legs # << >>
    /\ LastLeg.time = now
    /\ now \notin DOMAIN wx_fields
    /\ fcst_time < now
    /\ dt = soon - now
    /\ dt > 0

\* the timestamps of the axis are one step h apart, in seconds
StepOfAxis == times[2] - times[1]
UniformAxis ==
    /\ Len(times) >= 2
    /\ \A i \in 1..(Len(times) - 1) : times[i + 1] - times[i] = StepOfAxis
\* the speed on the route from start to end in the wind of the axis' first
\* timestamp, and the length of that route
PassageSpeed ==
    Max2(boat_speed(wx_fields[times[1]], rhumbline_bearing(waypoints[1], waypoints[2])),
         1 * Milli)
PassageLength == rhumbline_distance(waypoints[1], waypoints[2])
\* the axis lasts as long as the passage takes at that speed
AxisCoversPassage ==
    (times[Len(times)] - times[1]) * PassageSpeed >= PassageLength * SECONDS_IN_HOUR
CeilDiv(a, b) == (a + b - 1) \div b

\* C20: on a route of two points sailed at a constant speed s over a
\* uniform time step h that covers the whole passage of length D, the number
\* of legs is ceil((D / s) / h).
C20_NumberOfLegs ==
    (pc = "done" /\ TwoPoint /\ ConstantWind /\ UniformAxis /\ AxisCoversPassage) =>
        Len(legs) = CeilDiv(PassageLength * SECONDS_IN_HOUR, PassageSpeed * StepOfAxis)

\* C21: the timestamps of the legs emitted so far do not decrease along the
\* sequence, and none is after the last timestamp of the time axis.
C21_LegTimesOrdered ==
    /\ \A i, j \in 1..Len(legs) : i < j => legs[i].time <= legs[j].time
    /\ \A i \in 1..Len(legs) : legs[i].time <= times[Len(times)]

\* a finished run with a leg stamped between two timestamps followed by a
\* leg stamped with a timestamp of the axis
C21_Witness ==
    /\ pc = "done"
    /\ \E i, j \in 1..Len(legs) :
         /\ i < j
         /\ legs[i].time \notin DOMAIN wx_fields
         /\ legs[j].time \in DOMAIN wx_fields

\* C22: the relative-wind angle of every leg is the absolute difference of
\* heading and wind direction, a difference above pi replaced by 2*pi minus
\* it, and so lies in [0, pi] for directions in [0, 2*pi).
C22_RelativeWindFolded ==
    \A i \in 1..Len(legs) :
        LET diff == Abs(legs[i].heading - legs[i].wind.dir)
        IN  /\ legs[i].heading >= 0 /\ legs[i].heading < 2 * Pi
            /\ legs[i].wind.dir >= 0 /\ legs[i].wind.dir < 2 * Pi
            /\ legs[i].rel_wind = (IF diff > Pi THEN 2 * Pi - diff ELSE diff)
            /\ legs[i].rel_wind >= 0
            /\ legs[i].rel_wind <= Pi

\* a leg whose heading and wind direction differ by more than pi
C22_Witness ==
    \E i \in 1..Len(legs) : Abs(legs[i].heading - legs[i].wind.dir) > Pi

\* ------------------------------------------------------------------------
\* Claims about successive runs and summarize_passages
\* ------------------------------------------------------------------------
\* C23: for a non-empty collection of leg sequences there is exactly one row
\* per leg timestamp of the first sequence, in time order, and each row
\* spans the values of every member at that timestamp.
C23_OneRowPerTimestamp ==
    ens_outcome = "returned" =>
        /\ Len(rows) = Len(passages[1])
        /\ \A i \in 1..Len(rows) :
              /\ rows[i].time = passages[1][i].time
              /\ \A m \in 1..Len(passages) :
                    \E j \in 1..Len(passages[m]) :
                       /\ passages[m][j].time = rows[i].time
                       /\ ~FLess(Fin(passages[m][j].wind.speed, 1), rows[i].wind.min)
                       /\ ~FLess(rows[i].wind.max, Fin(passages[m][j].wind.speed, 1))

AboutQueries == SelectSeq(wb_sent, LAMBDA m : m.query > 0)

\* C24: the queries of an email are processed in order; for a query that
\* raises BadQuery exactly one error email is sent, the error is raised
\* again, and no later query is processed or answered.
C24_BadQueryStopsProcessing ==
    /\ [](\A i \in 1..Len(AboutQueries) : AboutQueries[i].query = i)
    /\ [](\A i \in 1..Len(AboutQueries) :
            AboutQueries[i].kind = "error" =>
                /\ RaisesBadQuery(i)
                /\ i = Len(AboutQueries)
                /\ wb_pc = "done"
                /\ wb_outcome = "BadQuery"
                /\ wb_next = i)
    /\ [](wb_outcome = "BadQuery" =>
            /\ AboutQueries # << >>
            /\ AboutQueries[Len(AboutQueries)] = ErrorEmail(wb_next))
    /\ [][wb_pc = "done" => UNCHANGED wbvars]_vars

\* the first query was answered, the second raised BadQuery and a query
\* that would have been answered was left after it
C24_Witness ==
    /\ wb_outcome = "BadQuery"
    /\ wb_next = 2
    /\ Len(wb_queries) > 2
    /\ Answered(3)
    /\ AboutQueries = <<ForecastEmail(1), ErrorEmail(2)>>

\* ------------------------------------------------------------------------
\* Claims about parse_hours
\* ------------------------------------------------------------------------
HoursTokens == split(re_sub(hours_in[1].str))
IsRangeToken(tok) ==
    /\ has_ellipsis(tok)
    /\ Len(re_split(tok)) = 2
    /\ \A i \in 1..2 : is_float(re_split(tok)[i])
RangeLow(tok) == re_split(tok)[1][1]
RangeHigh(tok) == re_split(tok)[2][1]

\* every token is an hour or a range, and a range has two values before
\* its ellipsis: the token before it is an hour
TwoValuesBeforeEllipsis ==
    /\ hours_in[1].given
    /\ \A i \in 1..Len(HoursTokens) :
          \/ is_float(HoursTokens[i])
          \/ IsRangeToken(HoursTokens[i]) /\ i > 1 /\ is_float(HoursTokens[i - 1])

RangeDiff(i) == RangeLow(HoursTokens[i]) - HoursTokens[i - 1][1]
IsMultiple(len, d) == d # 0 /\ \E k \in (0 - 100)..100 : len = k * d
LengthIsMultiple(i) ==
    IsMultiple(RangeHigh(HoursTokens[i]) - RangeLow(HoursTokens[i]), RangeDiff(i))

\* low, low + d, ... up to and including high
IsExpansion(hs, low, d, high) ==
    /\ hs # << >>
    /\ hs[1] = low
    /\ hs[Len(hs)] = high
    /\ \A k \in 1..(Len(hs) - 1) : hs[k + 1] - hs[k] = d /\ hs[k] # high

\* the hours the tokens stand for: hs is cut into one piece per token
RECURSIVE Stands(_, _)
Stands(hs, i) ==
    IF i > Len(HoursTokens) THEN hs = << >>
    ELSE IF is_float(HoursTokens[i])
         THEN hs # << >> /\ hs[1] = HoursTokens[i][1] /\ Stands(Tail(hs), i + 1)
         ELSE \E n \in 1..Len(hs) :
                 /\ IsExpansion(SubSeq(hs, 1, n), RangeLow(HoursTokens[i]),
                                RangeDiff(i), RangeHigh(HoursTokens[i]))
                 /\ Stands(SubSeq(hs, n + 1, Len(hs)), i + 1)

\* C25: parse_hours expands an ellipsis by continuing the difference
\* between the two values before it up to and including the end value, so
\* that '0,6,12,24...72' yields the hours of '0,6,12,24,36,48,60,72'; a
\* range whose length is not a multiple of that difference raises
\* BadQuery; None yields [24, 48, 72] with a warning.
C25_EllipsisExpanded ==
    hours_out # << >> =>
        /\ ~hours_in[1].given =>
              /\ hours_out[1].outcome = "returned"
              /\ hours_out[1].hours = <<24, 48, 72>>
              /\ Len(hours_out[1].warnings) = 1
        /\ hours_in[1] = [given |-> TRUE, str |-> ExampleEllipsis] =>
              hours_out[1] = parse_hours([given |-> TRUE, str |-> ExampleExpanded])
        /\ TwoValuesBeforeEllipsis =>
              IF \E i \in 1..Len(HoursTokens) :
                     IsRangeToken(HoursTokens[i]) /\ ~LengthIsMultiple(i)
              THEN hours_out[1].outcome = "BadQuery"
              ELSE /\ hours_out[1].outcome = "returned"
                   /\ Stands(hours_out[1].hours, 1)

\* ------------------------------------------------------------------------
\* Claims about the sample time of simulate_passage
\* ------------------------------------------------------------------------
\* soon has been assigned (line 116)
SoonAssigned == pc = "loop" \/ (pc = "done" /\ outcome # "stopiteration")
IsLatestNotAfter(t, n) ==
    /\ t \in DOMAIN wx_fields
    /\ t <= n
    /\ \A u \in DOMAIN wx_fields : u <= n => u <= t
AdjacentOnAxis(t, u) == \E i \in 1..(Len(times) - 1) : times[i] = t /\ times[i + 1] = u

\* C26 as stated: in every state the sample time is the latest timestamp
\* of the axis not after the current time, sample time <= current time <=
\* next sample time with the two sample times adjacent on the axis, and
\* after an arrival step the current time is strictly between them.
C26_SampleTimeAsStated ==
    /\ [](pc # "start" => IsLatestNotAfter(fcst_time, now))
    /\ [](SoonAssigned => now <= soon /\ AdjacentOnAxis(fcst_time, soon))
    /\ [][pc = "loop" /\ Arrives => fcst_time' < now' /\ now' < soon']_vars

\* C26 amended: the sample time is the latest timestamp of the axis not
\* after the current time; while the generator has not run out of data
\* the sample time and the next sample time are adjacent on the axis and
\* the current time is before the next sample time; after an arrival step
\* the current time is at or after the sample time (an arrival may take
\* zero whole seconds) and before the next one; when the axis is exhausted
\* the three times are the last timestamp of the axis.
C26_SampleTime ==
    /\ [](pc # "start" => IsLatestNotAfter(fcst_time, now))
    /\ [](SoonAssigned /\ outcome # "exhausted" =>
             now < soon /\ AdjacentOnAxis(fcst_time, soon))
    /\ [](outcome = "exhausted" =>
             fcst_time = now /\ now = soon /\ soon = times[Len(times)])
    /\ [][pc = "loop" /\ Arrives => fcst_time' <= now' /\ now' < soon']_vars

\* a leg was emitted by an arrival that took no whole second: the current
\* time is still the first sample time
C26_Witness ==
    /\ Len(legs) >= 1
    /\ time_iter = 2
    /\ now = fcst_time
    /\ now < soon

\* ------------------------------------------------------------------------
\* Claims about the summary of a partial passage
\* ------------------------------------------------------------------------
\* C29: summarize_passage produces a summary for every leg sequence that
\* simulate_passage can return, the partial and the empty sequence left by
\* an exhausted time axis included: summarizing the legs of a finished
\* generator never raises.
C29_EveryPassageSummarized ==
    pc = "done" => sum_outcome \in {"running", "returned"}
====
